---- MODULE Spec2Model ----
(***************************************************************************)
(* The OAuth 2.0 authorization-code server of mcp-auth-test-server         *)
(* (main.py, database.py): the three tables of the credential store, the   *)
(* /authorize, /token, /register and /resource handlers, the Bearer guard  *)
(* get_current_user and the PKCE validator, as a state machine.            *)
(*                                                                         *)
(* Python strings are TLA+ strings; Python None is the value None below.   *)
(* secrets.token_urlsafe values are opaque and fresh: the n-th code, token *)
(* and client id is the number n (a collision has probability 2^-128 and   *)
(* is not modelled).  Datetimes are minutes since the server started.      *)
(***************************************************************************)
EXTENDS Integers, Sequences, FiniteSets, TLC

VARIABLES
    clients,        \* table "clients": set of Client rows
    auth_codes,     \* table "auth_codes": set of AuthCode rows
    access_tokens,  \* table "access_tokens": set of AccessToken rows
    now,            \* datetime.utcnow(), in minutes
    sessions,       \* /token requests between their SELECT and their COMMIT
    minted,         \* history: token value -> the code it was exchanged for
    pkce_call,      \* a call of validate_pkce: its arguments and its result
    authorization_codes,  \* mcp_auth_test_server.py: dict code -> binding
    tokens,               \* mcp_auth_test_server.py: dict token -> client
    dict_threads,   \* worker threads of mcp_auth_test_server.py inside token()
    dict_minted,    \* history: token value -> the code it was exchanged for
    dict_issued     \* history: how many codes the dict variant has issued

\* the state of src/mcp_auth_test_server.py, a separate program
dict_vars == <<authorization_codes, tokens, dict_threads, dict_minted, dict_issued>>

vars == <<clients, auth_codes, access_tokens, now, sessions, minted, pkce_call,
          dict_vars>>

store == <<clients, auth_codes, access_tokens>>

---------------------------------------------------------------------------
(* Bounds of the model *)

MaxClients == 2     \* client rows /register may create
MaxCodes == 2       \* authorization codes /authorize may issue
MaxTokens == 2      \* access tokens /token may mint
MaxSessions == 2    \* /token requests that may be in flight together
MaxTime == 75       \* the clock stops here (minutes)
CoarseStep == 40    \* minutes between two requests, in Spec and SpecRace
FineStep == 5       \* minutes between two requests, in SpecClock

(* Program constants *)

CodeTTL == 10       \* AuthCode.expires_at: timedelta(minutes=10)
TokenTTL == 60      \* AccessToken.expires_at: timedelta(hours=1)
MinChallengeLen == 43
MaxChallengeLen == 128

---------------------------------------------------------------------------
(* Values *)

None == "<None>"

\* Python truthiness of an Optional[str]: None and "" are falsy.
Truthy(s) == s # None /\ s # ""

BASE_URL == "http://127.0.0.1:8000"

Uris == {"http://localhost:3000/callback", "http://evil.example/cb"}
Resources == {None, "https://mcp.example/api"}
\* the state parameter: absent, empty, the scenario's, and one holding a
\* character that delimits query parameters
States == {None, "", "xyz", "a&b"}

\* a string as the pieces the URL delimiters "&" and "=" cut it into, the
\* delimiters being pieces of their own
UrlTokens(s) ==
    CASE s = "" -> <<>>
      [] s = "xyz" -> <<"xyz">>
      [] s = "a&b" -> <<"a", "&", "b">>

\* RFC 7636 appendix B verifier, and a second one.
V1 == "dBjftJeZ4CVP-mB92K27uhbUJU1p1r_wW1gFWFOEjXk"
V2 == "verifier-two"
\* base64url_nopad(sha256(v)) of V1, V2, of D1 itself and of "" (hashlib).
D1 == "E9Melhoa2OwvFrEMTJguCHaoeK1t8URWbuGJSstw-cM"
D2 == "-OZP4bJHaGpD8aBOjIhyUGreuIdXfZtWCXsxKSQUzuw"
D3 == "DSmbHrVIcI0EU05-BQxCe1bt-hXRNjejSEvdYbq_g4Q"
D0 == "47DEQpj8HBSa-_TImW-5JCeuQeRkm5NMpJWZG3hSuFU"

Verifiers == {"", V1, V2, D1}

\* challenges around the length limits of an S256 challenge: D1 has 43
\* characters, the others 42, 128 and 129
L42 == "E9Melhoa2OwvFrEMTJguCHaoeK1t8URWbuGJSstw-c"
L128 == D1 \o D1 \o L42
L129 == L128 \o "A"

\* hashlib.sha256(v.encode()).digest() then urlsafe_b64encode(..).rstrip("=")
Sha256B64(v) ==
    CASE v = V1 -> D1
      [] v = V2 -> D2
      [] v = D1 -> D3
      [] v = "" -> D0

---------------------------------------------------------------------------
(* PKCE validator *)

\* mutant: the verifier is never compared
validate_pkce_AcceptAll(code_verifier, code_challenge, code_challenge_method) ==
    TRUE

\* mutant: S256 compares the verifier itself, unhashed
validate_pkce_Unhashed(code_verifier, code_challenge, code_challenge_method) ==
    IF code_challenge_method \in {"plain", "S256"}
    THEN code_verifier = code_challenge
    ELSE FALSE

validate_pkce(code_verifier, code_challenge, code_challenge_method) ==
    IF code_challenge_method = "plain"
    THEN code_verifier = code_challenge
    ELSE IF code_challenge_method = "S256"
         THEN Sha256B64(code_verifier) = code_challenge
         ELSE FALSE

---------------------------------------------------------------------------
(* The credential store *)

\* dict.get(key, default) of a parsed JSON body
Get(d, k, default) == IF k \in DOMAIN d THEN d[k] ELSE default

\* mutant: the filter on client_id is lost
QueryClient_AnyRow(client_id) == clients

\* db.query(Client).filter(Client.client_id == client_id)
QueryClient(client_id) == {c \in clients : c.client_id = client_id}

\* mutant: the filter on used is lost
QueryAuthCode_IgnoreUsed(code) ==
    {a \in auth_codes : a.code = code /\ a.expires_at > now}

\* mutant: a code is still accepted at the instant it expires
QueryAuthCode_ExpiryInclusive(code) ==
    {a \in auth_codes : a.code = code /\ a.used = FALSE /\ a.expires_at >= now}

\* db.query(AuthCode).filter(code == code, used == False, expires_at > utcnow())
QueryAuthCode(code) ==
    {a \in auth_codes : a.code = code /\ a.used = FALSE /\ a.expires_at > now}

\* mutant: a token is still accepted at the instant it expires
QueryAccessToken_ExpiryInclusive(token) ==
    {t \in access_tokens : t.token = token /\ t.expires_at >= now}

\* db.query(AccessToken).filter(token == token, expires_at > utcnow())
QueryAccessToken(token) ==
    {t \in access_tokens : t.token = token /\ t.expires_at > now}

\* secrets.token_urlsafe: a value no row of the table holds yet
FreshClientId == Cardinality(clients) + 1
FreshCode == Cardinality(auth_codes) + 1
FreshToken == Cardinality(access_tokens) + 1

\* AuthCode(...) with the column defaults of database.py
NewAuthCode(code, client_id, redirect_uri, code_challenge, code_challenge_method, resource) ==
    [code |-> code, client_id |-> client_id, redirect_uri |-> redirect_uri,
     created_at |-> now, expires_at |-> now + CodeTTL, used |-> FALSE,
     code_challenge |-> code_challenge,
     code_challenge_method |-> code_challenge_method,
     resource |-> resource]

\* mutant: the token row does not record the client
NewAccessToken_NoClient(token, client_id, resource) ==
    [token |-> token, client_id |-> 0, created_at |-> now,
     expires_at |-> now + TokenTTL, resource |-> resource]

\* AccessToken(...) with the column defaults of database.py
NewAccessToken(token, client_id, resource) ==
    [token |-> token, client_id |-> client_id, created_at |-> now,
     expires_at |-> now + TokenTTL, resource |-> resource]

---------------------------------------------------------------------------
(* Responses *)

NoResp ==
    [ep |-> "none", status |-> 0, error |-> "", desc |-> "", location |-> None,
     query |-> <<>>, state |-> None, code |-> 0, access_token |-> 0,
     resource |-> None, client_id |-> 0, www |-> None, body |-> ""]

\* RedirectResponse(f"{redirect_uri}?<query>" + (f"&state={state}" if state else "")):
\* location is the text before the "?", query the text after it, the f-string
\* putting state into it as it is
Redirect(redirect_uri, error, desc, code, state) ==
    [NoResp EXCEPT !.ep = "authorize", !.status = 302, !.location = redirect_uri,
                   !.error = error, !.desc = desc, !.code = code,
                   !.query =
                       (IF code # 0 THEN <<"code", "=", ToString(code)>>
                        ELSE <<"error", "=", error>>)
                       \o (IF desc # "" THEN <<"&", "error_description", "=", desc>>
                           ELSE <<>>)
                       \o (IF Truthy(state) THEN <<"&", "state", "=">> \o UrlTokens(state)
                           ELSE <<>>)]

\* JSONResponse(status_code=.., content={"error": .., "error_description": ..})
JsonError(ep, status, error, desc) ==
    [NoResp EXCEPT !.ep = ep, !.status = status, !.error = error, !.desc = desc]

\* HTTPException(status_code=401, detail=.., headers={"WWW-Authenticate": www})
Unauthorized(ep, detail, www) ==
    [NoResp EXCEPT !.ep = ep, !.status = 401, !.error = detail, !.www = www]

WwwResourceServerMetadata ==
    "Bearer realm=\"mcp\", resource_server_metadata_url=\"" \o BASE_URL
        \o "/.well-known/oauth-protected-resource\""
WwwRealmOnly == "Bearer realm=\"mcp\""
WwwResourceMetadata ==
    "Bearer resource_metadata=\"" \o BASE_URL
        \o "/.well-known/oauth-protected-resource\""

---------------------------------------------------------------------------
(* Requests *)

ClientIds == 1..MaxClients
CodeValues == 1..MaxCodes
TokenValues == 1..MaxTokens
SessionIds == 1..MaxSessions

\* (code_challenge, code_challenge_method) pairs a caller may send
PkceParams ==
    { <<None, None>>, <<"", "S512">>, <<V1, None>>, <<V1, "plain">>,
      <<D1, "S256">>, <<D1, "S512">>, <<"too-short", "S256">> }

\* S256 challenges just inside and just outside the accepted lengths
BoundaryPkceParams == { <<L42, "S256">>, <<L128, "S256">>, <<L129, "S256">> }

\* (method, form field "action"): GET carries no form, a POST form may lack
\* the field
Forms == {<<"GET", None>>, <<"POST", None>>, <<"POST", "approve">>, <<"POST", "deny">>}

AuthorizeReq(form, response_type, client_id, redirect_uri, state, pkce, resource) ==
    [method |-> form[1], action |-> form[2], response_type |-> response_type,
     client_id |-> client_id, redirect_uri |-> redirect_uri, state |-> state,
     code_challenge |-> pkce[1], code_challenge_method |-> pkce[2],
     resource |-> resource]

\* every /authorize request of the model
AuthorizeReqs ==
    { AuthorizeReq(f, rt, c, u, st, p, r) :
        f \in Forms, rt \in {"code", "token"}, c \in ClientIds, u \in Uris,
        st \in States, p \in PkceParams, r \in Resources }
    \cup { AuthorizeReq(f, "code", c, "http://localhost:3000/callback", st, p, None) :
             f \in Forms, c \in ClientIds, st \in States, p \in BoundaryPkceParams }

\* the scenario of the specification: first client, callback URI, approved
BaseForm == <<"POST", "approve">>
BaseUri == "http://localhost:3000/callback"

\* the requests that differ from the scenario in at most one parameter
VariedAuthorizeReqs ==
    { AuthorizeReq(f, "code", 1, BaseUri, None, <<None, None>>, None) : f \in Forms }
    \cup { AuthorizeReq(BaseForm, rt, c, BaseUri, None, <<None, None>>, None) :
             rt \in {"code", "token"}, c \in ClientIds }
    \cup { AuthorizeReq(BaseForm, "code", 1, u, st, <<None, None>>, None) :
             u \in Uris, st \in States }
    \cup { AuthorizeReq(BaseForm, "code", 1, BaseUri, None, p, None) : p \in PkceParams }
    \cup { AuthorizeReq(BaseForm, "code", 1, BaseUri, None, <<None, None>>, r) :
             r \in Resources }

\* the scenario with an S256 challenge at the length limits
BoundaryAuthorizeReqs ==
    { AuthorizeReq(BaseForm, "code", 1, BaseUri, None, p, None) :
        p \in BoundaryPkceParams }

\* the scenario: one client, no PKCE, every form of the request
ScenarioAuthorizeReqs ==
    { AuthorizeReq(f, "code", 1, BaseUri, None, <<None, None>>, None) : f \in Forms }

TokenReqs ==
    [grant_type : {"authorization_code", "refresh_token"}, code : CodeValues,
     redirect_uri : Uris, client_id : ClientIds,
     code_verifier : {None} \cup Verifiers]

\* the /token requests a client holding V1 sends: every request that can
\* be granted for a code issued to PkceParams is among them
SentTokenReqs ==
    {req \in TokenReqs : /\ req.grant_type = "authorization_code"
                         /\ req.code_verifier \in {None, V1}}

\* the /token requests of the scenario's client
ScenarioTokenReqs ==
    {req \in SentTokenReqs : req.client_id = 1 /\ req.code_verifier = None}

\* Authorization header: its first seven characters and the rest
Headers ==
    {[prefix |-> None, rest |-> 0], [prefix |-> "", rest |-> 0]}
        \cup [prefix : {"Bearer ", "Basic x"}, rest : TokenValues]

\* JSON bodies of /register: keys may be absent
RegisterReqs ==
    UNION { {[redirect_uris |-> ru, grant_types |-> gt], [redirect_uris |-> ru]} :
              ru \in {<<>>, <<BaseUri>>, <<"http://evil.example/cb", BaseUri>>},
              gt \in {<<>>, <<"authorization_code">>, <<"implicit">>,
                      <<"authorization_code", "implicit">>} }
        \cup { [grant_types |-> <<"authorization_code">>] }

\* the scenario's registration, and one that is refused
ScenarioRegisterReqs == { [redirect_uris |-> <<BaseUri>>], [redirect_uris |-> <<>>] }

\* where the store may raise inside register_client's try block
StoreFaults == {"none", "commit", "refresh"}

---------------------------------------------------------------------------
(* /authorize *)

\* mutant: the length of an S256 challenge is not checked
PkceShapeError_NoLength(code_challenge, code_challenge_method) ==
    IF ~Truthy(code_challenge) THEN ""
    ELSE IF Truthy(code_challenge_method)
            /\ code_challenge_method \notin {"S256", "plain"}
    THEN "invalid_code_challenge_method"
    ELSE ""

\* mutant: the method is not validated
PkceShapeError_NoMethod(code_challenge, code_challenge_method) ==
    IF ~Truthy(code_challenge) THEN ""
    ELSE IF code_challenge_method = "S256"
            /\ (Len(code_challenge) < MinChallengeLen
                \/ Len(code_challenge) > MaxChallengeLen)
    THEN "invalid_code_challenge"
    ELSE ""

\* lines 112-118: the PKCE shape check of an approved request; "" = accepted
PkceShapeError(code_challenge, code_challenge_method) ==
    IF ~Truthy(code_challenge) THEN ""
    ELSE LET m == IF ~Truthy(code_challenge_method) THEN "plain"
                  ELSE code_challenge_method
         IN IF m \notin {"S256", "plain"} THEN "invalid_code_challenge_method"
            ELSE IF m = "S256" /\ (Len(code_challenge) < MinChallengeLen
                                   \/ Len(code_challenge) > MaxChallengeLen)
                 THEN "invalid_code_challenge"
                 ELSE ""

\* mutant: the method is stored as it was sent
StoredMethod_AsSent(code_challenge, code_challenge_method) == code_challenge_method

\* lines 113-114: the method stored with the code
StoredMethod(code_challenge, code_challenge_method) ==
    IF Truthy(code_challenge) /\ ~Truthy(code_challenge_method) THEN "plain"
    ELSE code_challenge_method

\* mutant: no decision stops the request
IsDeny_Never(action) == FALSE

\* line 103: the form's decision that stops the request from issuing a code
IsDeny(action) == action = "deny"

\* templates.TemplateResponse("consent.html", {...}), lines 89-99
ConsentPage(req) ==
    [NoResp EXCEPT !.ep = "authorize", !.status = 200, !.body = "consent.html",
                   !.client_id = req.client_id, !.location = req.redirect_uri,
                   !.state = req.state, !.resource = req.resource]

\* mutant: the client is looked up before response_type is checked
AuthorizeResponse_ClientFirst(req) ==
    IF QueryClient(req.client_id) = {}
    THEN Redirect(req.redirect_uri, "invalid_client", "", 0, req.state)
    ELSE Redirect(req.redirect_uri, "unsupported_response_type", "", 0, req.state)

\* the response of authorize(), lines 78-135
AuthorizeResponse(req) ==
    IF req.response_type # "code"
    THEN Redirect(req.redirect_uri, "unsupported_response_type", "", 0, req.state)
    ELSE IF QueryClient(req.client_id) = {}
    THEN Redirect(req.redirect_uri, "invalid_client", "", 0, req.state)
    ELSE IF req.method = "GET"
    THEN ConsentPage(req)
    ELSE IF IsDeny(req.action)
    THEN Redirect(req.redirect_uri, "access_denied", "", 0, req.state)
    ELSE IF PkceShapeError(req.code_challenge, req.code_challenge_method) # ""
    THEN Redirect(req.redirect_uri, "invalid_request",
                  PkceShapeError(req.code_challenge, req.code_challenge_method),
                  0, req.state)
    ELSE Redirect(req.redirect_uri, "", "", FreshCode, req.state)

\* authorize(): the row of lines 120-130 is added exactly when the request
\* reaches line 120, that is when the response carries a code
Authorize(req) ==
    /\ UNCHANGED <<clients, access_tokens, now, sessions, minted, pkce_call, dict_vars>>
    /\ IF AuthorizeResponse(req).code = 0
       THEN UNCHANGED auth_codes
       ELSE /\ Cardinality(auth_codes) < MaxCodes
            /\ auth_codes' = auth_codes \cup
                 {NewAuthCode(FreshCode, req.client_id, req.redirect_uri, req.code_challenge,
                              StoredMethod(req.code_challenge, req.code_challenge_method),
                              req.resource)}

---------------------------------------------------------------------------
(* /token *)

\* mutant: the client_id is not compared
BindingMismatch_UriOnly(auth_code, redirect_uri, client_id) ==
    auth_code.redirect_uri # redirect_uri

\* line 163: the code was issued to another redirect_uri or client_id
BindingMismatch(auth_code, redirect_uri, client_id) ==
    auth_code.redirect_uri # redirect_uri \/ auth_code.client_id # client_id

\* lines 150-173: the response of every check token() makes before it
\* writes, on the rows its session reads; NoResp = the exchange goes ahead
TokenError(req) ==
    IF req.grant_type # "authorization_code"
    THEN JsonError("token", 400, "unsupported_grant_type", "")
    ELSE IF QueryAuthCode(req.code) = {}
    THEN JsonError("token", 400, "invalid_grant", "")
    ELSE LET auth_code == CHOOSE a \in QueryAuthCode(req.code) : TRUE
         IN IF BindingMismatch(auth_code, req.redirect_uri, req.client_id)
            THEN JsonError("token", 400, "invalid_request", "")
            ELSE IF Truthy(auth_code.code_challenge)
                    /\ ~Truthy(req.code_verifier)
            THEN JsonError("token", 400, "invalid_request", "code_verifier required")
            ELSE IF Truthy(auth_code.code_challenge)
                    /\ ~validate_pkce(req.code_verifier, auth_code.code_challenge,
                                      auth_code.code_challenge_method)
            THEN JsonError("token", 400, "invalid_grant", "code_verifier validation failed")
            ELSE NoResp

\* mutant: the body never has a resource field
TokenSuccess_NoResource(access_token_value, resource) ==
    [NoResp EXCEPT !.ep = "token", !.status = 200,
                   !.access_token = access_token_value,
                   !.body = "bearer"]

\* lines 186-189: the body of a successful exchange
TokenSuccess(access_token_value, resource) ==
    [NoResp EXCEPT !.ep = "token", !.status = 200,
                   !.access_token = access_token_value,
                   !.body = "bearer",
                   !.resource = IF Truthy(resource) THEN resource ELSE None]

\* the response of token() when no other request runs between its SELECT
\* and its COMMIT
TokenResponse(req) ==
    IF TokenError(req) # NoResp THEN TokenError(req)
    ELSE TokenSuccess(FreshToken,
                      (CHOOSE a \in QueryAuthCode(req.code) : TRUE).resource)

\* mutant: the code is never marked
MarkCodeUsed_Skipped(code) == auth_codes

\* mutant: the flag is flipped instead of set
MarkCodeUsed_Toggle(code) ==
    {IF a.code = code THEN [a EXCEPT !.used = ~a.used] ELSE a : a \in auth_codes}

\* line 176 as flushed by line 182: UPDATE auth_codes SET used = 1 WHERE
\* code = :code. The statement names the row by its primary key only.
MarkCodeUsed(code) ==
    {IF a.code = code THEN [a EXCEPT !.used = TRUE] ELSE a : a \in auth_codes}

\* lines 175-182: the UPDATE, the INSERT of the token row and the COMMIT
TokenCommit(code, client_id, resource) ==
    /\ Cardinality(access_tokens) < MaxTokens
    /\ auth_codes' = MarkCodeUsed(code)
    /\ access_tokens' = access_tokens \cup
                          {NewAccessToken(FreshToken, client_id, resource)}
    /\ minted' = minted \cup {<<FreshToken, code>>}

\* mutant: the code is marked as soon as it is found
Token_MarkBeforeChecks(req) ==
    /\ UNCHANGED <<clients, now, sessions, pkce_call, dict_vars>>
    /\ IF req.grant_type # "authorization_code" \/ QueryAuthCode(req.code) = {}
       THEN UNCHANGED <<auth_codes, access_tokens, minted>>
       ELSE IF TokenError(req) # NoResp
       THEN /\ auth_codes' = MarkCodeUsed(req.code)
            /\ UNCHANGED <<access_tokens, minted>>
       ELSE LET auth_code == CHOOSE a \in QueryAuthCode(req.code) : TRUE
            IN TokenCommit(auth_code.code, req.client_id, auth_code.resource)

\* the whole handler, run with no other request between its SELECT and COMMIT
Token(req) ==
    /\ UNCHANGED <<clients, now, sessions, pkce_call, dict_vars>>
    /\ IF TokenError(req) # NoResp
       THEN UNCHANGED <<auth_codes, access_tokens, minted>>
       ELSE LET auth_code == CHOOSE a \in QueryAuthCode(req.code) : TRUE
            IN TokenCommit(auth_code.code, req.client_id, auth_code.resource)

\* lines 150-173 in session s: the SELECT and the checks on its result
TokenBegin(s, req) ==
    /\ \A p \in sessions : p.sid # s
    /\ UNCHANGED <<clients, auth_codes, access_tokens, now, minted, pkce_call, dict_vars>>
    /\ IF TokenError(req) # NoResp
       THEN UNCHANGED sessions
       ELSE LET auth_code == CHOOSE a \in QueryAuthCode(req.code) : TRUE
            IN sessions' = sessions \cup
                 {[sid |-> s, code |-> auth_code.code, client_id |-> req.client_id,
                   resource |-> auth_code.resource]}

\* lines 175-189 in session s: the writes, the COMMIT and the response
TokenEnd(s) ==
    \E p \in sessions :
        /\ p.sid = s
        /\ TokenCommit(p.code, p.client_id, p.resource)
        /\ sessions' = sessions \ {p}
        /\ UNCHANGED <<clients, now, pkce_call, dict_vars>>

---------------------------------------------------------------------------
(* The resource guard *)

\* the response of GET /resource, lines 226-260
ProtectedResourceResponse(authorization) ==
    IF ~Truthy(authorization.prefix)
    THEN Unauthorized("resource", "Authorization required", WwwResourceServerMetadata)
    ELSE IF authorization.prefix # "Bearer "
    THEN Unauthorized("resource", "Invalid authorization format", WwwRealmOnly)
    ELSE IF QueryAccessToken(authorization.rest) = {}
    THEN Unauthorized("resource", "Invalid or expired token", WwwRealmOnly)
    ELSE LET access_token == CHOOSE t \in QueryAccessToken(authorization.rest) : TRUE
         IN [NoResp EXCEPT !.ep = "resource", !.status = 200,
                           !.body = "You have accessed a protected resource!",
                           !.client_id = access_token.client_id]

\* protected_resource() reads the store and writes nothing
ProtectedResource(authorization) ==
    /\ ProtectedResourceResponse(authorization).ep = "resource"
    /\ UNCHANGED vars

\* what the dependency of the /simple/mcp endpoints raises or returns,
\* lines 344-368
GetCurrentUserResponse(authorization) ==
    IF ~Truthy(authorization.prefix) \/ authorization.prefix # "Bearer "
    THEN Unauthorized("mcp", "Missing or invalid authorization header",
                      WwwResourceMetadata)
    ELSE IF QueryAccessToken(authorization.rest) = {}
    THEN Unauthorized("mcp", "Invalid or expired token", WwwResourceMetadata)
    ELSE LET access_token == CHOOSE t \in QueryAccessToken(authorization.rest) : TRUE
         IN [NoResp EXCEPT !.ep = "mcp", !.status = 200,
                           !.client_id = access_token.client_id]

\* get_current_user() reads the store and writes nothing
GetCurrentUser(authorization) ==
    /\ GetCurrentUserResponse(authorization).ep = "mcp"
    /\ UNCHANGED vars

---------------------------------------------------------------------------
(* /register *)

\* mutant: the grant types are validated before the redirect URIs
RegisterError_GrantFirst(request) ==
    LET redirect_uris == Get(request, "redirect_uris", <<>>)
        grant_types == Get(request, "grant_types", <<"authorization_code">>)
    IN IF \E i \in 1..Len(grant_types) : grant_types[i] # "authorization_code"
       THEN JsonError("register", 400, "invalid_client_metadata", "Unsupported grant_type")
       ELSE IF redirect_uris = <<>>
       THEN JsonError("register", 400, "invalid_redirect_uri",
                      "At least one redirect_uri is required")
       ELSE NoResp

\* mutant: only the first grant type is validated
RegisterError_FirstGrantOnly(request) ==
    LET redirect_uris == Get(request, "redirect_uris", <<>>)
        grant_types == Get(request, "grant_types", <<"authorization_code">>)
    IN IF redirect_uris = <<>>
       THEN JsonError("register", 400, "invalid_redirect_uri",
                      "At least one redirect_uri is required")
       ELSE IF grant_types # <<>> /\ grant_types[1] # "authorization_code"
       THEN JsonError("register", 400, "invalid_client_metadata", "Unsupported grant_type")
       ELSE NoResp

\* lines 275-301: the validation of the request body; NoResp = accepted
RegisterError(request) ==
    LET redirect_uris == Get(request, "redirect_uris", <<>>)
        grant_types == Get(request, "grant_types", <<"authorization_code">>)
    IN IF redirect_uris = <<>>
       THEN JsonError("register", 400, "invalid_redirect_uri",
                      "At least one redirect_uri is required")
       ELSE IF \E i \in 1..Len(grant_types) : grant_types[i] # "authorization_code"
       THEN JsonError("register", 400, "invalid_client_metadata", "Unsupported grant_type")
       ELSE NoResp

\* mutant: the last redirect URI is stored
NewClient_LastUri(client_id, redirect_uris) ==
    [client_id |-> client_id, redirect_uri |-> redirect_uris[Len(redirect_uris)]]

\* Client(...): the row register_client builds, lines 308-313
NewClient(client_id, redirect_uris) ==
    [client_id |-> client_id, redirect_uri |-> redirect_uris[1]]

\* the response of register_client(); fault says where the store raises
RegisterResponse(request, fault) ==
    IF RegisterError(request) # NoResp THEN RegisterError(request)
    ELSE IF fault # "none"
    THEN JsonError("register", 500, "server_error", "Failed to register client in DB")
    ELSE [NoResp EXCEPT !.ep = "register", !.status = 200,
                        !.client_id = FreshClientId, !.body = "client_secret_post"]

\* mutant: the new row replaces the table
RegisterClient_Overwrite(request, fault) ==
    /\ UNCHANGED <<auth_codes, access_tokens, now, sessions, minted, pkce_call, dict_vars>>
    /\ IF RegisterError(request) # NoResp
       THEN UNCHANGED clients
       ELSE /\ Cardinality(clients) < MaxClients
            /\ IF fault = "commit"
               THEN UNCHANGED clients
               ELSE clients' = {NewClient(FreshClientId, request.redirect_uris)}

\* register_client(): a commit that raises is rolled back; a refresh that
\* raises comes after the commit
RegisterClient(request, fault) ==
    /\ UNCHANGED <<auth_codes, access_tokens, now, sessions, minted, pkce_call, dict_vars>>
    /\ IF RegisterError(request) # NoResp
       THEN UNCHANGED clients
       ELSE /\ Cardinality(clients) < MaxClients
            /\ IF fault = "commit"
               THEN UNCHANGED clients
               ELSE clients' = clients \cup
                                 {NewClient(FreshClientId, request.redirect_uris)}

---------------------------------------------------------------------------
(* validate_pkce called on its own *)

Methods == {None, "", "plain", "S256", "S512"}
Challenges == {"", V1, V2, D0, D1, D2, D3}

NotCalled == "not called"

PkceCalls == [code_verifier : Verifiers, code_challenge : Challenges,
              code_challenge_method : Methods, result : {NotCalled}]

\* bool as the string Python prints for it
Bool(b) == IF b THEN "True" ELSE "False"

ValidatePkce ==
    /\ pkce_call.result = NotCalled
    /\ pkce_call' = [pkce_call EXCEPT !.result =
                  Bool(validate_pkce(pkce_call.code_verifier, pkce_call.code_challenge,
                                     pkce_call.code_challenge_method))]
    /\ UNCHANGED <<clients, auth_codes, access_tokens, now, sessions, minted, dict_vars>>

---------------------------------------------------------------------------
(* Time *)

\* datetime.utcnow() d minutes later
Tick(d) ==
    /\ now + d <= MaxTime
    /\ now' = now + d
    /\ UNCHANGED <<clients, auth_codes, access_tokens, sessions, minted, pkce_call, dict_vars>>

----------------------------------------------------------------------------
(* src/mcp_auth_test_server.py: codes and tokens kept in two dicts *)

\* (redirect_uri, client_id) pairs a /token request may present
DictBindings ==
    { <<BaseUri, 1>>, <<"http://evil.example/cb", 1>>, <<BaseUri, 2>> }

\* GET /authorize of the dict variant, for the client and the redirect_uri
\* of the scenario
DictAuthorizeReqs ==
    [response_type : {"code", "token"}, client_id : {1},
     redirect_uri : {BaseUri}, state : {None, "xyz"}]

\* POST /token of the dict variant
DictTokenReqs ==
    { [grant_type |-> "authorization_code", code |-> c,
       redirect_uri |-> b[1], client_id |-> b[2]] :
          c \in CodeValues, b \in DictBindings }
    \cup { [grant_type |-> "refresh_token", code |-> 1,
            redirect_uri |-> BaseUri, client_id |-> 1] }

NoDictReq == [grant_type |-> "", code |-> 0, redirect_uri |-> "", client_id |-> 0]

\* a thread that is not inside token(): the code and the response of the
\* request it handled last
DictDone(code, status, detail) ==
    [pc |-> "idle", req |-> NoDictReq, code |-> code, status |-> status,
     detail |-> detail]

\* a thread inside token(), about to run the line pc names
DictAt(pc, req) ==
    [pc |-> pc, req |-> req, code |-> req.code, status |-> 0, detail |-> ""]

\* lines 9-10: both dicts empty, no request being handled
DictInit ==
    /\ authorization_codes = {}
    /\ tokens = {}
    /\ dict_threads = [s \in SessionIds |-> DictDone(0, 0, "")]
    /\ dict_minted = {}
    /\ dict_issued = 0

\* the keys of the dict authorization_codes
DictKeys == {a.code : a \in authorization_codes}

\* secrets.token_urlsafe: a value never returned before
FreshDictCode == dict_issued + 1
FreshDictToken == Cardinality(tokens) + 1

\* HTTPException(status_code=.., detail=..)
DictHttpError(ep, status, detail) ==
    [NoResp EXCEPT !.ep = ep, !.status = status, !.body = detail]

\* lines 15-22: the response of authorize()
DictAuthorizeResponse(req) ==
    IF req.response_type # "code"
    THEN DictHttpError("authorize", 400, "Unsupported response_type")
    ELSE Redirect(req.redirect_uri, "", "", FreshDictCode, req.state)

\* lines 12-22: GET /authorize stores a new code under the client_id and
\* redirect_uri of the request, with no client lookup and no consent step
DictAuthorize(req) ==
    /\ dict_issued < MaxCodes
    /\ IF DictAuthorizeResponse(req).status # 302
       THEN UNCHANGED <<authorization_codes, dict_issued>>
       ELSE /\ authorization_codes' = authorization_codes \cup
                  {[code |-> FreshDictCode, client_id |-> req.client_id,
                    redirect_uri |-> req.redirect_uri]}
            /\ dict_issued' = dict_issued + 1
    /\ UNCHANGED <<tokens, dict_threads, dict_minted>>
    /\ UNCHANGED <<clients, auth_codes, access_tokens, now, sessions, minted,
                   pkce_call>>

\* lines 26-27: the grant-type and code-known checks, the first step of a
\* thread that runs token()
DictTokenCheck(s, req) ==
    /\ dict_threads[s].pc = "idle"
    /\ dict_threads' = [dict_threads EXCEPT ![s] =
          IF req.grant_type # "authorization_code" \/ req.code \notin DictKeys
          THEN DictDone(req.code, 400, "Invalid grant or code")
          ELSE DictAt("pop", req)]
    /\ UNCHANGED <<authorization_codes, tokens, dict_minted, dict_issued>>
    /\ UNCHANGED <<clients, auth_codes, access_tokens, now, sessions, minted,
                   pkce_call>>

\* mutant: the entry is read and left in the dict
DictPop_Get(codes, code) == codes

\* line 28: dict.pop(code) takes the entry out of the dict
DictPop(codes, code) == {a \in codes : a.code # code}

\* lines 28-30: pop, one atomic dict operation, raises KeyError when another
\* thread has taken the entry since line 26 (answered 500); the comparison
\* that follows reads only the popped entry and the request
DictTokenPop(s) ==
    /\ dict_threads[s].pc = "pop"
    /\ LET req == dict_threads[s].req
       IN IF req.code \notin DictKeys
          THEN /\ dict_threads' = [dict_threads EXCEPT ![s] =
                     DictDone(req.code, 500, "Internal Server Error")]
               /\ UNCHANGED authorization_codes
          ELSE LET auth == CHOOSE a \in authorization_codes : a.code = req.code
               IN /\ authorization_codes' = DictPop(authorization_codes, req.code)
                  /\ dict_threads' = [dict_threads EXCEPT ![s] =
                        IF auth.redirect_uri # req.redirect_uri
                           \/ auth.client_id # req.client_id
                        THEN DictDone(req.code, 400,
                                      "Invalid redirect_uri or client_id")
                        ELSE DictAt("mint", req)]
    /\ UNCHANGED <<tokens, dict_minted, dict_issued>>
    /\ UNCHANGED <<clients, auth_codes, access_tokens, now, sessions, minted,
                   pkce_call>>

\* lines 31-33: the token is stored and returned
DictTokenMint(s) ==
    /\ dict_threads[s].pc = "mint"
    /\ LET req == dict_threads[s].req
       IN /\ tokens' = tokens \cup
                {[token |-> FreshDictToken, client_id |-> req.client_id]}
          /\ dict_minted' = dict_minted \cup {<<FreshDictToken, req.code>>}
          /\ dict_threads' = [dict_threads EXCEPT ![s] = DictDone(req.code, 200, "")]
    /\ UNCHANGED <<authorization_codes, dict_issued>>
    /\ UNCHANGED <<clients, auth_codes, access_tokens, now, sessions, minted,
                   pkce_call>>

----------------------------------------------------------------------------
(* Specifications *)

EmptyStore ==
    /\ clients = {}
    /\ auth_codes = {}
    /\ access_tokens = {}
    /\ now = 0
    /\ sessions = {}
    /\ minted = {}
    /\ DictInit

Init ==
    /\ EmptyStore
    /\ pkce_call = [code_verifier |-> "", code_challenge |-> "",
                    code_challenge_method |-> None, result |-> NotCalled]

\* requests handled one at a time, parameters varied
Next ==
    \/ \E req \in VariedAuthorizeReqs : Authorize(req)
    \/ \E req \in SentTokenReqs : Token(req)
    \/ \E h \in Headers : ProtectedResource(h)
    \/ \E h \in Headers : GetCurrentUser(h)
    \/ \E req \in ScenarioRegisterReqs, f \in StoreFaults : RegisterClient(req, f)
    \/ Tick(CoarseStep)

Spec == Init /\ [][Next]_vars

\* the scenario's client registers once
RegisterScenarioClient ==
    /\ clients = {}
    /\ \E req \in ScenarioRegisterReqs, f \in StoreFaults : RegisterClient(req, f)

\* the scenario's requests on a fine clock
NextClock ==
    \/ \E req \in ScenarioAuthorizeReqs : Authorize(req)
    \/ \E req \in ScenarioTokenReqs : Token(req)
    \/ \E h \in Headers : ProtectedResource(h)
    \/ \E h \in Headers : GetCurrentUser(h)
    \/ RegisterScenarioClient
    \/ Tick(FineStep)

SpecClock == Init /\ [][NextClock]_vars

\* the scenario's requests with /token running on concurrent sessions
NextRace ==
    \/ \E req \in ScenarioAuthorizeReqs : Authorize(req)
    \/ \E s \in SessionIds, req \in ScenarioTokenReqs : TokenBegin(s, req)
    \/ \E s \in SessionIds : TokenEnd(s)
    \/ \E h \in Headers : ProtectedResource(h)
    \/ RegisterScenarioClient
    \/ Tick(CoarseStep)

SpecRace == Init /\ [][NextRace]_vars

\* /authorize with its parameters varied, for the scenario's clients
NextAuthorize ==
    \/ \E req \in VariedAuthorizeReqs \cup BoundaryAuthorizeReqs : Authorize(req)
    \/ \E req \in ScenarioRegisterReqs, f \in StoreFaults : RegisterClient(req, f)

SpecAuthorize == Init /\ [][NextAuthorize]_vars

\* /register with every body and every store fault, and the scenario's
\* /authorize requests for the clients it creates
RegisteredAuthorizeReqs ==
    { AuthorizeReq(BaseForm, "code", c, u, None, <<None, None>>, r) :
        c \in ClientIds, u \in Uris, r \in Resources }

NextRegister ==
    \/ \E req \in RegisterReqs, f \in StoreFaults : RegisterClient(req, f)
    \/ \E req \in RegisteredAuthorizeReqs : Authorize(req)

SpecRegister == Init /\ [][NextRegister]_vars

\* validate_pkce on every argument triple of the model
InitPkce == EmptyStore /\ pkce_call \in PkceCalls

SpecPkce == InitPkce /\ [][ValidatePkce]_vars

\* the dict variant: its threads interleave line by line
NextDict ==
    \/ \E req \in DictAuthorizeReqs : DictAuthorize(req)
    \/ \E s \in SessionIds, req \in DictTokenReqs : DictTokenCheck(s, req)
    \/ \E s \in SessionIds : DictTokenPop(s)
    \/ \E s \in SessionIds : DictTokenMint(s)

SpecDict == Init /\ [][NextDict]_vars

---------------------------------------------------------------------------
(* Vocabulary of the properties *)

\* the tokens minted from code c
TokensOf(c) == {m[1] : m \in {n \in minted : n[2] = c}}

InvalidGrant == JsonError("token", 400, "invalid_grant", "")

\* the PKCE rule of RFC 7636, section 4.6
PkceReference(verifier, challenge, method) ==
    CASE method = "plain" -> challenge = verifier
      [] method = "S256" -> challenge = Sha256B64(verifier)
      [] OTHER -> FALSE

\* req presents code row a with the parameters a was issued for
Matches(req, a) ==
    /\ req.grant_type = "authorization_code"
    /\ req.code = a.code
    /\ req.redirect_uri = a.redirect_uri
    /\ req.client_id = a.client_id
    /\ Truthy(a.code_challenge) =>
         /\ Truthy(req.code_verifier)
         /\ PkceReference(req.code_verifier, a.code_challenge, a.code_challenge_method)

\* the pieces of a query string between its "&" delimiters
RECURSIVE SplitAmp(_)
SplitAmp(ts) ==
    IF \A i \in DOMAIN ts : ts[i] # "&" THEN <<ts>>
    ELSE LET i == CHOOSE k \in DOMAIN ts :
                    ts[k] = "&" /\ \A j \in 1..(k - 1) : ts[j] # "&"
         IN <<SubSeq(ts, 1, i - 1)>> \o SplitAmp(SubSeq(ts, i + 1, Len(ts)))

RECURSIVE Join(_)
Join(ts) == IF ts = <<>> THEN "" ELSE ts[1] \o Join(Tail(ts))

\* the value the receiver of a redirect reads for parameter key: the text
\* between the first "key=" and the next "&"; None when there is no such
\* parameter
QueryValue(query, key) ==
    LET segs == SplitAmp(query)
        hits == {i \in DOMAIN segs :
                    Len(segs[i]) >= 2 /\ segs[i][1] = key /\ segs[i][2] = "="}
    IN IF hits = {} THEN None
       ELSE LET i == CHOOSE k \in hits : \A j \in hits : k <= j
            IN Join(SubSeq(segs[i], 3, Len(segs[i])))

\* the text of a query string ends with "&state=" followed by state
StateAppended(query, state) ==
    LET suffix == <<"&", "state", "=">> \o UrlTokens(state)
    IN /\ Len(query) >= Len(suffix)
       /\ SubSeq(query, Len(query) - Len(suffix) + 1, Len(query)) = suffix

\* handling req now would add a code row
IssuesCode(req) == ENABLED (Authorize(req) /\ auth_codes' # auth_codes)

\* handling req now would change a table
ChangesStore(req) == ENABLED (Authorize(req) /\ store' # store)

\* client_id names a client row
Registered(client_id) == \E c \in clients : c.client_id = client_id

\* req passes the response_type and client checks and is a POST whose
\* form does not deny
Approved(req) ==
    /\ req.response_type = "code" /\ Registered(req.client_id)
    /\ req.method = "POST" /\ req.action # "deny"

---------------------------------------------------------------------------
(* C1-C3: single use *)

\* C1: with requests handled one after another, once a code has been
\* exchanged for a token every later authorization_code request presenting
\* that code is answered 400 invalid_grant, and no code ever has more than one
\* token minted from it.
C1_SequentialSingleUse ==
    /\ \A c \in CodeValues : Cardinality(TokensOf(c)) <= 1
    /\ \A req \in TokenReqs :
         (req.grant_type = "authorization_code" /\ TokensOf(req.code) # {})
            => TokenResponse(req) = InvalidGrant

\* a redeemed code that has not expired, presented again with the
\* parameters it was issued for, is refused
C1_Witness ==
    \E a \in auth_codes, req \in TokenReqs :
        /\ a.used /\ a.expires_at > now /\ TokensOf(a.code) # {}
        /\ Matches(req, a)
        /\ TokenResponse(req) = InvalidGrant

\* C2: under every interleaving of concurrent /token requests, at most one
\* access token is minted from one code.
C2_OneTokenPerCodeUnderRace ==
    \A c \in CodeValues : Cardinality(TokensOf(c)) <= 1

\* C3: in every committed state, every access token row was minted from a
\* code whose used flag is true in that state.
C3_TokenImpliesCodeUsed ==
    /\ \A t \in access_tokens : \E m \in minted : m[1] = t.token
    /\ \A m \in minted :
         /\ \E t \in access_tokens : t.token = m[1]
         /\ \E a \in auth_codes : a.code = m[2] /\ a.used

\* a token has been committed while another session still holds the same
\* code, read before that commit
C3_Witness ==
    \E m \in minted, p \in sessions :
        /\ p.code = m[2]
        /\ \E a \in auth_codes : a.code = m[2] /\ a.used

---------------------------------------------------------------------------
(* C4-C5: expiry *)

\* C4: a code expires 10 minutes after its creation, and a /token request
\* presenting it at any time now >= expires_at is answered 400 (invalid_grant
\* for an authorization_code request) and mints no token, whatever else it
\* carries.
C4_CodeExpiry ==
    /\ [](\A a \in auth_codes :
            /\ a.created_at <= now
            /\ a.expires_at = a.created_at + 10
            /\ \A req \in TokenReqs :
                 (req.code = a.code /\ now >= a.expires_at) =>
                    /\ TokenResponse(req).status = 400
                    /\ req.grant_type = "authorization_code"
                         => TokenResponse(req) = InvalidGrant)
    /\ [][/\ \A a \in auth_codes' :
               (\A b \in auth_codes : b.code # a.code) => a.created_at = now
          /\ \A m \in minted' \ minted :
               \E a \in auth_codes : a.code = m[2] /\ now < a.expires_at]_vars

\* an unused code presented with matching parameters at the very instant
\* it expires is refused
C4_Witness ==
    \E a \in auth_codes, req \in TokenReqs :
        /\ ~a.used /\ now = a.expires_at
        /\ Matches(req, a)
        /\ TokenResponse(req) = InvalidGrant

\* the guard lets the header through
Accepts(authorization) ==
    /\ authorization.prefix = "Bearer "
    /\ \E t \in access_tokens : t.token = authorization.rest /\ t.expires_at > now

\* C5: the resource guard accepts a Bearer value exactly when a token row
\* with that value exists and its expires_at, one hour after its creation, is
\* later than now; token rows are never deleted or changed.
C5_TokenValidityIsExpiry ==
    /\ [](/\ \A t \in access_tokens :
               t.created_at <= now /\ t.expires_at = t.created_at + 60
          /\ \A h \in Headers :
               /\ ProtectedResourceResponse(h).status = 200 <=> Accepts(h)
               /\ ProtectedResourceResponse(h).status # 200
                    => ProtectedResourceResponse(h).status = 401
               /\ GetCurrentUserResponse(h).status = 200 <=> Accepts(h)
               /\ GetCurrentUserResponse(h).status # 200
                    => GetCurrentUserResponse(h).status = 401)
    /\ [][access_tokens \subseteq access_tokens']_vars

\* one token is refused at the very instant it expires while a younger one,
\* whose code expired long ago, is accepted
C5_Witness ==
    \E t1, t2 \in access_tokens :
        /\ t1.expires_at = now
        /\ ProtectedResourceResponse([prefix |-> "Bearer ", rest |-> t1.token]).status = 401
        /\ ProtectedResourceResponse([prefix |-> "Bearer ", rest |-> t2.token]).status = 200
        /\ GetCurrentUserResponse([prefix |-> "Bearer ", rest |-> t2.token]).status = 200
        /\ \E a \in auth_codes : <<t2.token, a.code>> \in minted /\ a.expires_at <= now

---------------------------------------------------------------------------
(* C6-C8: binding and PKCE *)

\* C6: a /token request whose redirect_uri or client_id differs from the
\* one recorded on the code it presents is answered 400 (invalid_request or
\* invalid_grant for an authorization_code request) and mints no token,
\* whether the code is unused, used or expired and whatever verifier it
\* carries.
C6_BindingIntegrity ==
    /\ [](\A a \in auth_codes, req \in TokenReqs :
            (/\ req.code = a.code
             /\ (req.redirect_uri # a.redirect_uri \/ req.client_id # a.client_id)) =>
                LET r == TokenResponse(req)
                IN /\ r.status = 400
                   /\ r.access_token = 0
                   /\ req.grant_type = "authorization_code"
                        => r.error \in {"invalid_request", "invalid_grant"})
    /\ [][\A m \in minted' \ minted, req \in TokenReqs :
            (req.code = m[2] /\ Token(req)) =>
                \A a \in auth_codes : a.code = req.code =>
                    /\ req.redirect_uri = a.redirect_uri
                    /\ req.client_id = a.client_id]_vars

\* a redeemable code presented by another registered client is refused
\* with invalid_request while a used or expired one, presented with another
\* redirect_uri, is refused with invalid_grant
C6_Witness ==
    \E a, b \in auth_codes, ra, rb \in TokenReqs :
        /\ ~a.used /\ a.expires_at > now
        /\ ra.code = a.code /\ ra.redirect_uri = a.redirect_uri
        /\ ra.client_id # a.client_id
        /\ \E c \in clients : c.client_id = ra.client_id
        /\ TokenResponse(ra) = JsonError("token", 400, "invalid_request", "")
        /\ b.used /\ b.expires_at <= now
        /\ rb.code = b.code /\ rb.redirect_uri # b.redirect_uri
        /\ rb.client_id = b.client_id
        /\ TokenResponse(rb) = InvalidGrant

\* code row a can still be exchanged
Redeemable(a) == ~a.used /\ a.expires_at > now

\* C7: a code stored with a code_challenge is exchanged only by a request
\* whose code_verifier validates against the stored challenge under the stored
\* method; for a redeemable code and matching redirect_uri and client_id, a
\* request with no verifier gets 400 invalid_request, one with a verifier that
\* does not validate gets 400 invalid_grant, and neither mints a token.
C7_PkceGate ==
    /\ [](\A a \in auth_codes, req \in TokenReqs :
            (/\ req.code = a.code
             /\ req.grant_type = "authorization_code"
             /\ Truthy(a.code_challenge)) =>
                /\ TokenResponse(req).status = 200 =>
                     /\ Truthy(req.code_verifier)
                     /\ PkceReference(req.code_verifier, a.code_challenge,
                                      a.code_challenge_method)
                /\ (/\ Redeemable(a)
                    /\ req.redirect_uri = a.redirect_uri
                    /\ req.client_id = a.client_id) =>
                      IF ~Truthy(req.code_verifier)
                      THEN TokenResponse(req) =
                             JsonError("token", 400, "invalid_request",
                                       "code_verifier required")
                      ELSE IF ~PkceReference(req.code_verifier, a.code_challenge,
                                             a.code_challenge_method)
                      THEN TokenResponse(req) =
                             JsonError("token", 400, "invalid_grant",
                                       "code_verifier validation failed")
                      ELSE TokenResponse(req).status = 200)
    /\ [][\A m \in minted' \ minted, req \in TokenReqs :
            (req.code = m[2] /\ Token(req)) =>
                \A a \in auth_codes : (a.code = req.code /\ Truthy(a.code_challenge)) =>
                    /\ Truthy(req.code_verifier)
                    /\ PkceReference(req.code_verifier, a.code_challenge,
                                     a.code_challenge_method)]_vars

\* one S256 code has been exchanged, and a second redeemable S256 code
\* refuses a request without verifier and a request with the wrong one
C7_Witness ==
    \E a, b \in auth_codes, r0, r1 \in TokenReqs :
        /\ a.code_challenge_method = "S256" /\ a.used /\ TokensOf(a.code) # {}
        /\ b.code_challenge_method = "S256" /\ Redeemable(b)
        /\ r0.code = b.code /\ r0.redirect_uri = b.redirect_uri
        /\ r0.client_id = b.client_id /\ r0.code_verifier = None
        /\ TokenResponse(r0).error = "invalid_request"
        /\ r1 = [r0 EXCEPT !.code_verifier = V2]
        /\ TokenResponse(r1).error = "invalid_grant"
        /\ TokenResponse([r0 EXCEPT !.code_verifier = V1]).status = 200

\* C8: validate_pkce is the reference function: "plain" compares the
\* verifier with the challenge, "S256" compares
\* base64url_nopad(sha256(verifier)) with it, so the challenge of a verifier v
\* rejects every other verifier, and every other method is rejected.
C8_ValidatePkce ==
    pkce_call.result # NotCalled =>
        LET v == pkce_call.code_verifier
            c == pkce_call.code_challenge
            m == pkce_call.code_challenge_method
        IN /\ pkce_call.result = Bool(PkceReference(v, c, m))
           /\ m = "plain" => (pkce_call.result = "True" <=> v = c)
           /\ m = "S256" =>
                \A w \in Verifiers :
                    c = Sha256B64(w) => (pkce_call.result = "True" <=> v = w)
           /\ m \notin {"plain", "S256"} => pkce_call.result = "False"

\* the S256 challenge of V1 has accepted V1
C8_Witness ==
    /\ pkce_call.code_challenge_method = "S256"
    /\ pkce_call.code_challenge = D1
    /\ pkce_call.code_verifier = V1
    /\ pkce_call.result = "True"

---------------------------------------------------------------------------
(* C9-C10: /authorize *)

\* C9: an authorization code row is created only by a POST /authorize that
\* carries the decision approve.
C9_ConsentRequired ==
    [][auth_codes' # auth_codes =>
         \A req \in AuthorizeReqs : Authorize(req) =>
             req.method = "POST" /\ req.action = "approve"]_vars

\* C10: a request whose client_id is not registered is answered with an
\* error redirect (error=invalid_client when response_type is code) and creates
\* no code, and each code row's client_id is the client_id of a client row.
C10_ClientValidation ==
    /\ \A a \in auth_codes : \E c \in clients : c.client_id = a.client_id
    /\ \A req \in AuthorizeReqs :
         (\A c \in clients : c.client_id # req.client_id) =>
            LET r == AuthorizeResponse(req)
            IN /\ r.status = 302
               /\ r.location = req.redirect_uri
               /\ r.code = 0
               /\ req.response_type = "code" => r.error = "invalid_client"

\* with one client registered and a code issued to it, a request naming
\* an unregistered client is refused
C10_Witness ==
    /\ auth_codes # {}
    /\ \E req \in AuthorizeReqs :
         /\ req.method = "POST" /\ req.action = "approve"
         /\ req.response_type = "code"
         /\ clients # {} /\ \A c \in clients : c.client_id # req.client_id
         /\ Cardinality(auth_codes) < MaxCodes
         /\ AuthorizeResponse(req).error = "invalid_client"

---------------------------------------------------------------------------
(* C11-C14: the redirects of /authorize *)

\* C11: every /authorize request whose response_type is not "code", GET
\* or POST, whatever its decision and whether or not its client is registered,
\* is answered 302 to the supplied redirect_uri with
\* error=unsupported_response_type, "&state=<state>" appended when a non-empty
\* state was given and no state parameter otherwise, and adds no code row.
C11_UnsupportedResponseType ==
    \A req \in AuthorizeReqs :
        req.response_type # "code" =>
            LET r == AuthorizeResponse(req)
            IN /\ r.status = 302
               /\ r.location = req.redirect_uri
               /\ r.error = "unsupported_response_type"
               /\ IF Truthy(req.state) THEN StateAppended(r.query, req.state)
                  ELSE QueryValue(r.query, "state") = None
               /\ r.code = 0
               /\ ~IssuesCode(req)

\* with a client registered and room for a code, an approved POST naming
\* an unregistered client and response_type token is answered
\* unsupported_response_type, not invalid_client, and carries its state
C11_Witness ==
    /\ clients # {} /\ Cardinality(auth_codes) < MaxCodes
    /\ \E req \in AuthorizeReqs :
         /\ req.response_type = "token" /\ ~Registered(req.client_id)
         /\ req.method = "POST" /\ req.action = "approve" /\ req.state = "xyz"
         /\ AuthorizeResponse(req).error = "unsupported_response_type"
         /\ QueryValue(AuthorizeResponse(req).query, "state") = "xyz"
         /\ \E ok \in AuthorizeReqs :
              /\ ok = [req EXCEPT !.response_type = "code", !.client_id = 1]
              /\ IssuesCode(ok)

\* C12: a POST /authorize with decision deny, for a registered client and
\* response_type code, is answered 302 to redirect_uri with
\* error=access_denied, "&state=<state>" appended when a non-empty state was
\* given, adds no code row and changes no table, whatever PKCE parameters it
\* carries.
C12_DeniedConsent ==
    \A req \in AuthorizeReqs :
        (/\ req.method = "POST" /\ req.action = "deny"
         /\ req.response_type = "code" /\ Registered(req.client_id)) =>
            LET r == AuthorizeResponse(req)
            IN /\ r.status = 302
               /\ r.location = req.redirect_uri
               /\ r.error = "access_denied"
               /\ IF Truthy(req.state) THEN StateAppended(r.query, req.state)
                  ELSE QueryValue(r.query, "state") = None
               /\ r.code = 0
               /\ ~IssuesCode(req)
               /\ ~ChangesStore(req)

\* a denied request with a well-formed S256 challenge is answered
\* access_denied in a state where the same request, approved, would be given a
\* code, and a denied request with a malformed challenge is answered
\* access_denied, not invalid_request
C12_Witness ==
    \E req, bad \in AuthorizeReqs :
        /\ req.method = "POST" /\ req.action = "deny" /\ req.state = "xyz"
        /\ req.code_challenge = D1 /\ req.code_challenge_method = "S256"
        /\ Registered(req.client_id)
        /\ AuthorizeResponse(req).error = "access_denied"
        /\ IssuesCode([req EXCEPT !.action = "approve"])
        /\ bad = [req EXCEPT !.code_challenge_method = "S512"]
        /\ AuthorizeResponse(bad).error = "access_denied"
        /\ AuthorizeResponse([bad EXCEPT !.action = "approve"]).error = "invalid_request"

\* C13: an approved /authorize request with a non-empty code_challenge is
\* answered with a redirect carrying error=invalid_request, and adds no code
\* row, when its code_challenge_method is given and is neither S256 nor plain,
\* or when the method is S256 and the challenge is shorter than 43 or longer
\* than 128 characters; S256 challenges of 43 and of 128 characters are given
\* a code.
C13_PkceShapeCheck ==
    \A req \in AuthorizeReqs :
        (Approved(req) /\ Truthy(req.code_challenge)) =>
            LET r == AuthorizeResponse(req)
                m == req.code_challenge_method
                n == Len(req.code_challenge)
            IN /\ ((Truthy(m) /\ m \notin {"S256", "plain"})
                    \/ (m = "S256" /\ (n < 43 \/ n > 128))) =>
                      /\ r.status = 302
                      /\ r.location = req.redirect_uri
                      /\ r.error = "invalid_request"
                      /\ r.code = 0
                      /\ ~IssuesCode(req)
               /\ (m = "S256" /\ n \in {43, 128}) =>
                      /\ r.error = ""
                      /\ r.code # 0
                      /\ Cardinality(auth_codes) < MaxCodes => IssuesCode(req)

\* a code issued for a 128-character S256 challenge is stored, and in a
\* state with room for another code the challenges of 42 and 129 characters
\* and the method S512 are refused while the 43-character one is accepted
C13_Witness ==
    /\ \E a \in auth_codes : a.code_challenge = L128 /\ a.code_challenge_method = "S256"
    /\ Cardinality(auth_codes) < MaxCodes
    /\ \E req \in AuthorizeReqs :
         /\ Approved(req) /\ req.code_challenge = L42
         /\ req.code_challenge_method = "S256"
         /\ AuthorizeResponse(req).error = "invalid_request"
         /\ AuthorizeResponse([req EXCEPT !.code_challenge = L129]).error
              = "invalid_request"
         /\ AuthorizeResponse([req EXCEPT !.code_challenge = D1,
                                          !.code_challenge_method = "S512"]).error
              = "invalid_request"
         /\ IssuesCode([req EXCEPT !.code_challenge = D1])

\* C14: every redirect of /authorize hands the receiver, as the value of
\* its state parameter, exactly the state the caller supplied when it supplied
\* a non-empty one, and has no state parameter otherwise.
C14_StatePassthrough ==
    \A req \in AuthorizeReqs :
        LET r == AuthorizeResponse(req)
        IN r.status = 302 =>
             QueryValue(r.query, "state")
               = (IF Truthy(req.state) THEN req.state ELSE None)

---------------------------------------------------------------------------
(* C15-C16: the resource guard *)

\* the protected-resource metadata URL of the configured base URL
MetadataUrl == BASE_URL \o "/.well-known/oauth-protected-resource"

\* a WWW-Authenticate value read as a challenge: its scheme and its
\* auth-params
Challenge(www) ==
    CASE www = WwwResourceServerMetadata ->
           [scheme |-> "Bearer",
            params |-> {<<"realm", "mcp">>,
                        <<"resource_server_metadata_url", MetadataUrl>>}]
      [] www = WwwRealmOnly ->
           [scheme |-> "Bearer", params |-> {<<"realm", "mcp">>}]
      [] www = WwwResourceMetadata ->
           [scheme |-> "Bearer", params |-> {<<"resource_metadata", MetadataUrl>>}]
      [] OTHER -> [scheme |-> "", params |-> {}]

\* the shape every 401 of the guard is to have
UniformChallenge(www) ==
    /\ Challenge(www).scheme = "Bearer"
    /\ <<"realm", "mcp">> \in Challenge(www).params
    /\ <<"resource_metadata", MetadataUrl>> \in Challenge(www).params

\* C15: every 401 of the resource guard, for a missing header, a header
\* without the prefix "Bearer ", an unknown token and an expired token, carries
\* a WWW-Authenticate challenge with scheme Bearer, realm "mcp" and a
\* resource_metadata parameter holding the protected-resource metadata URL.
C15_UniformChallenge ==
    \A h \in Headers :
        /\ ProtectedResourceResponse(h).status = 401
              => UniformChallenge(ProtectedResourceResponse(h).www)
        /\ GetCurrentUserResponse(h).status = 401
              => UniformChallenge(GetCurrentUserResponse(h).www)

\* the token row a header names, when the guard accepts the header
TokenOf(h) == CHOOSE t \in access_tokens : t.token = h.rest

\* C16: for every Bearer token that exists and has not expired, the guard
\* hands the downstream handler the token's client_id and, when the token is
\* bound to a resource, that resource.
C16_ExposesClientAndResource ==
    \A h \in Headers :
        Accepts(h) =>
            /\ ProtectedResourceResponse(h).client_id = TokenOf(h).client_id
            /\ GetCurrentUserResponse(h).client_id = TokenOf(h).client_id
            /\ Truthy(TokenOf(h).resource) =>
                  /\ ProtectedResourceResponse(h).resource = TokenOf(h).resource
                  /\ GetCurrentUserResponse(h).resource = TokenOf(h).resource

---------------------------------------------------------------------------
(* C17: the flow from /authorize to /resource *)

\* req presents code row a with the redirect_uri and client_id a was
\* issued for
SameBinding(req, a) ==
    /\ req.grant_type = "authorization_code"
    /\ req.code = a.code
    /\ req.redirect_uri = a.redirect_uri
    /\ req.client_id = a.client_id

\* every token exchanged for a code is a row of the client the code was
\* issued to, and while that row has not expired GET /resource with it is
\* answered 200 with that client's id
TokenServesItsClient ==
    \A m \in minted :
        \E t \in access_tokens, a \in auth_codes :
            /\ t.token = m[1] /\ a.code = m[2]
            /\ t.client_id = a.client_id
            /\ Registered(a.client_id)
            /\ t.expires_at > now =>
                 LET r == ProtectedResourceResponse([prefix |-> "Bearer ", rest |-> t.token])
                 IN r.status = 200 /\ r.client_id = a.client_id

\* a granted /token request hands out the token row it has just inserted
GrantReturnsNewToken ==
    \A m \in minted' \ minted, req \in TokenReqs :
        (req.code = m[2] /\ Token(req)) =>
            /\ TokenResponse(req).status = 200
            /\ TokenResponse(req).access_token = m[1]
            /\ \E t \in access_tokens' \ access_tokens :
                 t.token = m[1] /\ t.client_id = req.client_id /\ t.created_at = now

\* C17 as stated: for every registered client, a code returned by an
\* approved /authorize, sent to /token with the same redirect_uri and
\* client_id before it expires and before anyone else has exchanged it, is
\* answered 200, and GET /resource with the returned token, before the token
\* expires, is answered 200 with that client's id.
C17_EndToEndFlow ==
    /\ [](/\ \A a \in auth_codes, req \in TokenReqs :
               (Redeemable(a) /\ SameBinding(req, a)) => TokenResponse(req).status = 200
          /\ TokenServesItsClient)
    /\ [][GrantReturnsNewToken]_vars

\* C17 amended: the same, for a /token request that also carries, when
\* the authorization request had a code_challenge, a code_verifier that
\* validates against it.
C17_EndToEndFlowWithVerifier ==
    /\ [](/\ \A a \in auth_codes, req \in TokenReqs :
               (Redeemable(a) /\ Matches(req, a)) => TokenResponse(req).status = 200
          /\ TokenServesItsClient)
    /\ [][GrantReturnsNewToken]_vars

\* a token exchanged for an S256 code is accepted by /resource with the
\* client's id after its code has expired, while a second code, issued in
\* between, is still waiting to be exchanged
C17_Witness ==
    \E a, b \in auth_codes, t \in access_tokens :
        /\ a.code_challenge_method = "S256" /\ <<t.token, a.code>> \in minted
        /\ a.expires_at <= now /\ t.expires_at > now
        /\ ProtectedResourceResponse([prefix |-> "Bearer ", rest |-> t.token]).status = 200
        /\ ProtectedResourceResponse([prefix |-> "Bearer ", rest |-> t.token]).client_id
             = a.client_id
        /\ b.code # a.code /\ Redeemable(b)
        /\ \E req \in TokenReqs : Matches(req, b) /\ TokenResponse(req).status = 200

---------------------------------------------------------------------------
(* C18-C20: /register *)

\* the body has no redirect_uris or an empty list of them
NoRedirectUris(request) ==
    "redirect_uris" \notin DOMAIN request \/ request.redirect_uris = <<>>

\* the body asks for a grant type other than authorization_code
UnsupportedGrant(request) ==
    /\ "grant_types" \in DOMAIN request
    /\ \E i \in DOMAIN request.grant_types : request.grant_types[i] # "authorization_code"

\* handling the request now would add a client row
AddsClient(request, fault) == ENABLED (RegisterClient(request, fault) /\ clients' # clients)

\* C18: every registration request whose redirect_uris is absent or empty
\* is answered 400 invalid_redirect_uri and adds no client row, whatever its
\* grant_types.
C18_RedirectUrisRequired ==
    \A request \in RegisterReqs, fault \in StoreFaults :
        NoRedirectUris(request) =>
            /\ RegisterResponse(request, fault).status = 400
            /\ RegisterResponse(request, fault).error = "invalid_redirect_uri"
            /\ ~AddsClient(request, fault)

\* with one client registered and room for another, a body without
\* redirect_uris and a body with an empty list and an unsupported grant type
\* are both refused with invalid_redirect_uri while a well-formed body would be
\* registered
C18_Witness ==
    /\ clients # {}
    /\ AddsClient([redirect_uris |-> <<BaseUri>>], "none")
    /\ RegisterResponse([grant_types |-> <<"authorization_code">>], "none").error
         = "invalid_redirect_uri"
    /\ RegisterResponse([redirect_uris |-> <<>>, grant_types |-> <<"implicit">>],
                        "none").error = "invalid_redirect_uri"

\* C19 as stated: every registration request whose grant_types contains
\* an entry other than "authorization_code" is answered 400
\* invalid_client_metadata, for every value of the other fields, and adds no
\* client row.
C19_GrantTypesValidated ==
    \A request \in RegisterReqs, fault \in StoreFaults :
        UnsupportedGrant(request) =>
            /\ RegisterResponse(request, fault).status = 400
            /\ RegisterResponse(request, fault).error = "invalid_client_metadata"
            /\ ~AddsClient(request, fault)

\* C19 amended: every registration request with a non-empty redirect_uris
\* whose grant_types contains an entry other than "authorization_code" is
\* answered 400 invalid_client_metadata and adds no client row; with
\* redirect_uris absent or empty it is answered 400 invalid_redirect_uri and
\* adds no client row either.
C19_GrantTypesValidatedAfterUris ==
    \A request \in RegisterReqs, fault \in StoreFaults :
        UnsupportedGrant(request) =>
            /\ RegisterResponse(request, fault).status = 400
            /\ RegisterResponse(request, fault).error
                 = (IF NoRedirectUris(request) THEN "invalid_redirect_uri"
                    ELSE "invalid_client_metadata")
            /\ ~AddsClient(request, fault)

\* with room for a client, a body with two redirect URIs whose second
\* grant type is implicit is refused with invalid_client_metadata, and the
\* same body without the implicit entry would be registered
C19_Witness ==
    /\ clients # {}
    /\ RegisterResponse([redirect_uris |-> <<"http://evil.example/cb", BaseUri>>,
                         grant_types |-> <<"authorization_code", "implicit">>],
                        "none").error = "invalid_client_metadata"
    /\ AddsClient([redirect_uris |-> <<"http://evil.example/cb", BaseUri>>,
                   grant_types |-> <<"authorization_code">>], "none")

\* C20: a registration answered 200 adds exactly one client row, whose
\* client_id is the one returned and differs from every existing client_id,
\* and whose redirect_uri is the first element of the requested redirect_uris;
\* client rows are never removed or changed, and /authorize never answers
\* invalid_client to a request naming a registered client_id.
C20_RegistrationAddsClient ==
    /\ [](/\ \A c, d \in clients : c.client_id = d.client_id => c = d
          /\ \A c \in clients, req \in AuthorizeReqs :
               (req.client_id = c.client_id /\ req.response_type = "code") =>
                   AuthorizeResponse(req).error # "invalid_client")
    /\ [][/\ clients \subseteq clients'
          /\ clients' # clients =>
               \A request \in RegisterReqs, fault \in StoreFaults :
                   (/\ RegisterClient(request, fault)
                    /\ RegisterResponse(request, fault).status = 200) =>
                       \E c \in clients' :
                           /\ c \notin clients
                           /\ clients' = clients \cup {c}
                           /\ \A d \in clients : d.client_id # c.client_id
                           /\ c.client_id = RegisterResponse(request, fault).client_id
                           /\ c.redirect_uri = request.redirect_uris[1]]_vars

\* a client registered with two redirect URIs is stored with the first,
\* next to an earlier client, and has been given a code by /authorize
C20_Witness ==
    \E c, d \in clients, a \in auth_codes :
        /\ c.client_id # d.client_id
        /\ c.redirect_uri = "http://evil.example/cb" /\ d.redirect_uri = BaseUri
        /\ \A e \in clients : e.client_id <= c.client_id
        /\ a.client_id = c.client_id

\* C21: when the store raises while register_client writes the client,
\* at the commit or at the refresh that follows it, the request is answered
\* 500 server_error and the client table is exactly as it was before the
\* request.
C21_FailedRegistrationLeavesNoRow ==
    /\ [](\A request \in RegisterReqs, fault \in StoreFaults :
            (fault # "none" /\ ~NoRedirectUris(request) /\ ~UnsupportedGrant(request)) =>
                /\ RegisterResponse(request, fault).status = 500
                /\ RegisterResponse(request, fault).error = "server_error")
    /\ [][clients' # clients =>
            \A request \in RegisterReqs, fault \in StoreFaults :
                RegisterClient(request, fault) =>
                    RegisterResponse(request, fault).status # 500]_vars

---------------------------------------------------------------------------
(* C22-C23: what never changes back *)

\* C22: the used flag of every code starts false at issuance, changes
\* only from false to true and only in the step that commits a token for that
\* code, and is never set back to false, under every interleaving of /token
\* requests; no other field of a code row ever changes.
C22_UsedIsMonotonic ==
    /\ [](\A a \in auth_codes : a.used => TokensOf(a.code) # {})
    /\ [][/\ \A b \in auth_codes' :
               (\A a \in auth_codes : a.code # b.code) => ~b.used
          /\ \A a \in auth_codes :
               \E b \in auth_codes' :
                   /\ b = [a EXCEPT !.used = b.used]
                   /\ a.used => b.used
                   /\ (b.used /\ ~a.used) =>
                        \E m \in minted' \ minted : m[2] = a.code]_vars

\* a second commit for a code that is already used has left it used,
\* next to a code that is still unused
C22_Witness ==
    \E a, b \in auth_codes :
        /\ a.used /\ Cardinality(TokensOf(a.code)) = 2
        /\ ~b.used

\* C23: /authorize, /token and the guards leave the client table as it
\* is and /register only adds one row to it, so a client row present in a
\* state is present, with the same fields, in every later state.
C23_ClientsArePermanent ==
    [][/\ clients \subseteq clients'
       /\ clients' # clients =>
            /\ \E c \in clients' : c \notin clients /\ clients' = clients \cup {c}
            /\ \E request \in RegisterReqs, fault \in StoreFaults :
                 RegisterClient(request, fault)
            /\ \A req \in AuthorizeReqs : ~Authorize(req)
            /\ \A req \in TokenReqs : ~Token(req)
            /\ \A h \in Headers : ~ProtectedResource(h) /\ ~GetCurrentUser(h)]_vars

\* both clients are still registered after codes were issued, one was
\* exchanged, the guard was asked and time has passed
C23_Witness ==
    /\ Cardinality(clients) = MaxClients
    /\ \E a \in auth_codes : a.used /\ a.expires_at <= now
    /\ \E a \in auth_codes : ~a.used
    /\ \E h \in Headers : ProtectedResourceResponse(h).status = 200

---------------------------------------------------------------------------
(* C24-C27: what a code hands on to its token *)

\* C24: every token row was minted from a code and carries that code's
\* client_id and resource (none when the code has none), and the body of a
\* granted /token request has a resource field, holding the code's resource,
\* exactly when the code is bound to one.
C24_TokenInheritsFromCode ==
    /\ \A t \in access_tokens : \E m \in minted : m[1] = t.token
    /\ \A m \in minted :
         \E t \in access_tokens, a \in auth_codes :
             /\ t.token = m[1] /\ a.code = m[2]
             /\ t.client_id = a.client_id
             /\ t.resource = a.resource
    /\ \A a \in auth_codes, req \in TokenReqs :
         (Redeemable(a) /\ Matches(req, a)) =>
             LET r == TokenResponse(req)
             IN /\ r.status = 200
                /\ r.resource = (IF Truthy(a.resource) THEN a.resource ELSE None)

\* one token was minted from a code bound to a resource and one from a
\* code bound to none
C24_Witness ==
    \E t, u \in access_tokens, a, b \in auth_codes :
        /\ <<t.token, a.code>> \in minted /\ <<u.token, b.code>> \in minted
        /\ Truthy(a.resource) /\ t.resource = a.resource
        /\ ~Truthy(b.resource) /\ u.resource = None
        /\ t.client_id = a.client_id /\ u.client_id = b.client_id

\* the /authorize requests that carry a code_challenge and no method
ChallengeOnlyReqs ==
    {req \in AuthorizeReqs :
        Truthy(req.code_challenge) /\ ~Truthy(req.code_challenge_method)}

\* C25: a code issued to an approved request that carries a
\* code_challenge and no code_challenge_method is stored with that challenge
\* and method "plain", and a redeemable code stored with method "plain" is
\* exchanged, by a request with its redirect_uri and client_id, exactly when
\* the code_verifier equals the challenge.
C25_MethodDefaultsToPlain ==
    /\ [](\A a \in auth_codes, req \in TokenReqs :
            (/\ Truthy(a.code_challenge) /\ a.code_challenge_method = "plain"
             /\ Redeemable(a) /\ SameBinding(req, a)) =>
                (TokenResponse(req).status = 200
                   <=> req.code_verifier = a.code_challenge))
    /\ [][\A b \in auth_codes' :
            (\A a \in auth_codes : a.code # b.code) =>
                \A req \in ChallengeOnlyReqs :
                    Authorize(req) =>
                        /\ b.code_challenge = req.code_challenge
                        /\ b.code_challenge_method = "plain"]_vars

\* one code stored with method "plain" has been exchanged and a second
\* one is refused with another verifier and with none, and accepted with the
\* challenge as verifier
C25_Witness ==
    \E a, b \in auth_codes, req \in TokenReqs :
        /\ a.code_challenge = V1 /\ a.code_challenge_method = "plain"
        /\ a.used /\ TokensOf(a.code) # {}
        /\ b.code_challenge = V1 /\ b.code_challenge_method = "plain" /\ Redeemable(b)
        /\ SameBinding(req, b) /\ req.code_verifier = V2
        /\ TokenResponse(req).error = "invalid_grant"
        /\ TokenResponse([req EXCEPT !.code_verifier = None]).error = "invalid_request"
        /\ TokenResponse([req EXCEPT !.code_verifier = V1]).status = 200

\* the error bodies of /token
TokenErrors ==
    { JsonError("token", 400, "unsupported_grant_type", ""),
      JsonError("token", 400, "invalid_grant", ""),
      JsonError("token", 400, "invalid_request", ""),
      JsonError("token", 400, "invalid_request", "code_verifier required"),
      JsonError("token", 400, "invalid_grant", "code_verifier validation failed") }

\* C26: a /token request is answered 200 or with one of the five error
\* bodies; a request answered with an error changes no row of any table, and
\* a code that is still unused and unexpired is exchanged by a request with
\* its redirect_uri, client_id and verifier, whatever failed before.
C26_FailedExchangeChangesNothing ==
    /\ [](/\ \A req \in TokenReqs :
               LET r == TokenResponse(req)
               IN  r.status = 200 \/ r \in TokenErrors
          /\ \A a \in auth_codes, good \in TokenReqs :
               (Matches(good, a) /\ Redeemable(a)) =>
                   TokenResponse(good).status = 200)
    /\ [][store' # store =>
            \A req \in TokenReqs :
                Token(req) => TokenResponse(req).status = 200]_vars

\* an S256 code issued before a token was exchanged for another code is
\* still redeemable: requests for it with another client, with no verifier
\* and with the wrong verifier are refused, the right one is granted
C26_Witness ==
    \E a, b \in auth_codes, good \in TokenReqs :
        /\ a.code < b.code /\ a.code_challenge_method = "S256" /\ Redeemable(a)
        /\ b.used /\ TokensOf(b.code) # {}
        /\ Matches(good, a) /\ TokenResponse(good).status = 200
        /\ TokenResponse([good EXCEPT !.redirect_uri = "http://evil.example/cb"]).error
             = "invalid_request"
        /\ TokenResponse([good EXCEPT !.code_verifier = None]).desc
             = "code_verifier required"
        /\ TokenResponse([good EXCEPT !.code_verifier = V2]).error = "invalid_grant"
        /\ TokenResponse([good EXCEPT !.grant_type = "refresh_token"]).error
             = "unsupported_grant_type"

\* C27: every stored code with a non-empty challenge has method "S256" or
\* "plain", and an S256 challenge is 43 to 128 characters long.
C27_StoredChallengeIsWellFormed ==
    \A a \in auth_codes :
        Truthy(a.code_challenge) =>
            /\ a.code_challenge_method \in {"S256", "plain"}
            /\ a.code_challenge_method = "S256" =>
                   /\ Len(a.code_challenge) >= MinChallengeLen
                   /\ Len(a.code_challenge) <= MaxChallengeLen

\* a 128-character S256 challenge and a plain challenge are both stored
C27_Witness ==
    \E a, b \in auth_codes :
        /\ a.code_challenge_method = "S256" /\ Len(a.code_challenge) = MaxChallengeLen
        /\ b.code_challenge_method = "plain" /\ b.code_challenge = V1

\* C28: in every reachable state the redirect_uri of each code row is the
\* redirect_uri registered for the client the code belongs to.
C28_RedirectUriIsTheClients ==
    \A a \in auth_codes, c \in clients :
        c.client_id = a.client_id => a.redirect_uri = c.redirect_uri

\* C30: every Bearer value the guard accepts is the value of a token row
\* minted by a successful /token exchange for a code row that is used and has
\* the token's client_id; the token table is empty until the first exchange;
\* and every code row is created by an approved (POST, action=approve)
\* /authorize request of the client the row names.
C30_NoAccessWithoutExchange ==
    /\ [](/\ \A h \in Headers :
               Accepts(h) =>
                   \E m \in minted, a \in auth_codes :
                       /\ m[1] = h.rest /\ a.code = m[2] /\ a.used
                       /\ a.client_id = TokenOf(h).client_id
          /\ minted = {} => access_tokens = {})
    /\ [][\A b \in auth_codes' :
            (\A a \in auth_codes : a.code # b.code) =>
                \A req \in AuthorizeReqs :
                    Authorize(req) =>
                        /\ req.method = "POST" /\ req.action = "approve"
                        /\ req.client_id = b.client_id]_vars

\* C29: in the dict variant a code leaves the dict at the pop of the first
\* request that passed the grant-type and code-known checks, whether or not
\* the redirect_uri/client_id comparison that follows succeeds; so a code is
\* never exchanged for more than one token, whatever the interleaving, and a
\* code whose token was minted or whose binding comparison failed is gone.
C29_DictPopBeforeComparison ==
    /\ [](/\ \A c \in 1..dict_issued :
               /\ Cardinality({m \in dict_minted : m[2] = c}) <= 1
               /\ (\E m \in dict_minted : m[2] = c) => c \notin DictKeys
          /\ \A s \in SessionIds :
               (dict_threads[s].pc = "mint"
                \/ dict_threads[s].detail = "Invalid redirect_uri or client_id")
                   => dict_threads[s].code \notin DictKeys)
    /\ [][\A s \in SessionIds :
            /\ (\E req \in DictTokenReqs : DictTokenCheck(s, req)) =>
                   authorization_codes' = authorization_codes
            /\ (DictTokenPop(s) /\ dict_threads[s].code \in DictKeys) =>
                   /\ authorization_codes' =
                        {a \in authorization_codes : a.code # dict_threads[s].code}
                   /\ dict_threads'[s].status \in {0, 400}]_vars

\* two threads passed the checks with the same code: one was answered 500
\* and the other 200 with the only token of that code; and a request with
\* another redirect_uri was refused and its code is gone with no token
C29_Witness ==
    \E s, t \in SessionIds :
        /\ dict_threads[s].status = 200 /\ dict_threads[t].status = 500
        /\ dict_threads[s].code = dict_threads[t].code
        /\ Cardinality({m \in dict_minted : m[2] = dict_threads[s].code}) = 1
        /\ \E c \in 1..dict_issued :
               /\ c \notin DictKeys
               /\ \A m \in dict_minted : m[2] # c
               /\ \A u \in SessionIds : dict_threads[u].pc = "idle"

====
